---- MODULE Spec2Model ----
(***************************************************************************)
(* Model of cncjs-pendant-gamepad: the joystick decoder/filter             *)
(* (joystick.js: parse, onOpen, onRead, open) and the gesture and command  *)
(* engine of index.js (ButtonState, Selector, AxisState, the BUTTONS/AXES  *)
(* dispatch tables, the button/axis handlers, jog throttle, periodic       *)
(* drivers).                                                               *)
(*                                                                         *)
(* Node runs every callback to completion, so each action below is one     *)
(* callback: a completed fs.read (onRead, with the listeners it calls      *)
(* synchronously), a completed fs.open, a timer firing, an interval tick   *)
(* or a socket message.  Timers are kept in creation order in `timers`;    *)
(* a timer may fire only when no timer created before it has a delay that  *)
(* is not longer than its own.                                             *)
(*                                                                         *)
(* Distances are in 1/100 mm, feedrates in mm/min (integers).              *)
(***************************************************************************)
EXTENDS Integers, Sequences, FiniteSets, TLC

\* ------------------------------------------------------------------------
\* Program constants (index.js)
\* ------------------------------------------------------------------------
SPINDLE_MIN_SPEED == 0
SPINDLE_MAX_SPEED == 24000
STEP_FEEDRATES == <<100, 500, 1000, 2000>>
\* 0.01, 0.1, 1.0, 10.0 mm in 1/100 mm
STEP_DISTANCES == <<1, 10, 100, 1000>>
DEFAULT_STEP_INDEX == 2
MAX_JOG_FEEDRATE == 3000
JOG_COMMAND_INTERVAL == 100
JOG_COMMAND_TIMEOUT == 1000
JOYSTICK_DEADZONE == 750
JOYSTICK_SENSITIVITY == 100
JOYSTICK_AXIS_MAX == 32767
JOYSTICK_LONG_PRESS_TIMEOUT == 500
\* jogLong: 1000.0 mm in 1/100 mm
LONG_JOG_DISTANCE == 100000

\* ------------------------------------------------------------------------
\* Bounds of the model
\* ------------------------------------------------------------------------
\* fs.open calls that may be in progress at once
MaxOpening == 1
\* fs.read calls that may be outstanding at once
MaxReading == 1
\* the same two, where the reconnect poll may overtake an open in progress
MaxChainOpening == 2
MaxChainReading == 2
\* jog in-flight timers that may be pending at once
MaxJogTimers == 2

Undef == "undefined"
\* an array slot never written (outside the int16 range of event.value)
NoValue == 65536

Abs(x) == IF x < 0 THEN -x ELSE x
Min(a, b) == IF a < b THEN a ELSE b
Max(a, b) == IF a > b THEN a ELSE b
Sign(x) == IF x > 0 THEN 1 ELSE IF x < 0 THEN -1 ELSE 0

\* ------------------------------------------------------------------------
\* Dispatch tables
\* ------------------------------------------------------------------------
BUTTONS ==
    [n \in 0..14 |->
        CASE n = 0 -> "A" [] n = 1 -> "B" [] n = 3 -> "X" [] n = 4 -> "Y"
          [] n = 6 -> "LB" [] n = 7 -> "RB" [] n = 11 -> "START"
          [] n = 13 -> "L3" [] n = 14 -> "R3" [] OTHER -> "XXX"]

AXES ==
    [n \in 0..7 |->
        CASE n = 0 -> "LSX" [] n = 1 -> "LSY" [] n = 2 -> "RSX" [] n = 3 -> "RSY"
          [] n = 4 -> "RT" [] n = 5 -> "LT" [] n = 6 -> "PADX" [] n = 7 -> "PADY"]

Gestures == {"a_z_down", "y_z_up", "pad_x_left", "pad_x_right", "pad_y_up", "pad_y_down"}

\* axis letter and direction bound into each ButtonState's callbacks
GestureAxis ==
    [g \in Gestures |->
        CASE g \in {"a_z_down", "y_z_up"} -> "Z"
          [] g \in {"pad_x_left", "pad_x_right"} -> "X"
          [] OTHER -> "Y"]

GestureDir ==
    [g \in Gestures |->
        IF g \in {"y_z_up", "pad_x_right", "pad_y_up"} THEN 1 ELSE -1]


\* ------------------------------------------------------------------------
\* State
\* ------------------------------------------------------------------------
VARIABLES
    \* joystick.js
    fd,                     \* TRUE once a descriptor has been stored
    lastAxisValue,          \* per axis number: last raw value recorded, or Undef
    lastAxisEmittedValue,   \* per axis number, or Undef
    opening,                \* fs.open calls in progress
    reading,                \* fs.read calls outstanding
    \* index.js
    controller_connected,
    jog_pending,
    lb, rb, lt, rt,
    spindle_active,
    bstate,                 \* per ButtonState: [pending, long_pressed]
    timers,                 \* pending setTimeout timers, in creation order
    step_distance_selection,\* Selector.index
    step_feedrate_selection,\* Selector.index
    left_x, left_y, right_x, right_y,   \* AxisState: [value, active]
    crashed,                \* an uncaught TypeError ended the process
    socket,                 \* the global socket: TRUE the connection object, FALSE null
    \* the device
    held,                   \* button numbers physically down
    synced,                 \* the init burst after the last open is over
    \* observation of the last step
    out,                    \* commands emitted to the socket by the last step
    ev,                     \* what the last step read and forwarded
    hist,                   \* per axis number: previous raw value, last forwarded value, first (non-zero) raw value of the run,
                            \* and (control 0) how many records of ScenarioRecords its records so far have matched
    calls,                  \* ButtonState callbacks invoked by the last step, in order: <<gesture, callback>>
    jogLegit,               \* since the last jog was sent: an ok/error line arrived, or its own timer fired
    jogAnswered,            \* the controller's response to the last jog sent has arrived
    spindleOn               \* an M3 has been emitted and no M5 since

devVars == <<fd, lastAxisValue, lastAxisEmittedValue, opening, reading, held, synced, ev, hist>>
engVars == <<controller_connected, jog_pending, lb, rb, lt, rt, spindle_active, bstate,
             timers, step_distance_selection, step_feedrate_selection,
             left_x, left_y, right_x, right_y, crashed, socket, out, calls, jogLegit,
             jogAnswered, spindleOn>>
vars == <<devVars, engVars>>

\* control numbers the filter keeps state for (8 is outside AXES)
AxisNumbers == 0..8

\* ------------------------------------------------------------------------
\* Commands written to the socket
\* ------------------------------------------------------------------------
\* kind: "jog" | "cancel" | "M3" | "M5" | "unlock" | "reset" | "resume" | "pause" | "homing"
\* src : "short" | "long" | "stick" for a jog, "" otherwise
\* mv  : the motion vector, a sequence of <<axis letter, signed distance>>
\* arg : feedrate of a jog, speed of M3, else 0
Cmd(kind, src, mv, arg) == [kind |-> kind, src |-> src, mv |-> mv, arg |-> arg]
Plain(kind) == Cmd(kind, "", <<>>, 0)
JOG_CANCEL_CMD == Plain("cancel")

\* ------------------------------------------------------------------------
\* The engine state as one record, so that a handler's statements compose
\* ------------------------------------------------------------------------
Engine ==
    [controller_connected |-> controller_connected, jog_pending |-> jog_pending,
     lb |-> lb, rb |-> rb, lt |-> lt, rt |-> rt, spindle_active |-> spindle_active,
     bstate |-> bstate, timers |-> timers,
     step_distance_selection |-> step_distance_selection,
     step_feedrate_selection |-> step_feedrate_selection,
     left_x |-> left_x, left_y |-> left_y, right_x |-> right_x, right_y |-> right_y,
     crashed |-> crashed, socket |-> socket, out |-> <<>>, calls |-> <<>>, jogLegit |-> jogLegit,
     jogAnswered |-> jogAnswered, spindleOn |-> spindleOn]

JogTimerCount(ts) == Cardinality({i \in 1..Len(ts) : ts[i].kind = "jog"})

\* the handler's result becomes the next state (the result is bound once, as a value)
Commit(result) ==
    \E n \in {result} :
        /\ JogTimerCount(n.timers) <= MaxJogTimers
        /\ controller_connected' = n.controller_connected
        /\ jog_pending' = n.jog_pending
        /\ lb' = n.lb /\ rb' = n.rb /\ lt' = n.lt /\ rt' = n.rt
        /\ spindle_active' = n.spindle_active
        /\ bstate' = n.bstate
        /\ timers' = n.timers
        /\ step_distance_selection' = n.step_distance_selection
        /\ step_feedrate_selection' = n.step_feedrate_selection
        /\ left_x' = n.left_x /\ left_y' = n.left_y
        /\ right_x' = n.right_x /\ right_y' = n.right_y
        /\ crashed' = n.crashed
        /\ socket' = n.socket
        /\ out' = n.out
        /\ calls' = n.calls
        /\ jogLegit' = n.jogLegit
        /\ jogAnswered' = n.jogAnswered
        /\ spindleOn' = n.spindleOn

\* a TypeError thrown inside a listener is uncaught
Throw(s) == [s EXCEPT !.crashed = TRUE]

\* socket.emit(...): a property access on null throws; what the rest of the
\* handler would have written is then never read again
Emit(s, c) ==
    IF ~s.socket THEN Throw(s)
    ELSE [s EXCEPT !.out = Append(@, c),
                   !.spindleOn = IF c.kind = "M3" THEN TRUE
                                 ELSE IF c.kind = "M5" THEN FALSE ELSE @]

\* socket.on('error'): the connection is destroyed and the global is cleared
socketError(s) == IF s.socket THEN [s EXCEPT !.socket = FALSE] ELSE s

\* ------------------------------------------------------------------------
\* Timers
\* ------------------------------------------------------------------------
TimerDelay(t) == IF t.kind = "jog" THEN JOG_COMMAND_TIMEOUT ELSE JOYSTICK_LONG_PRESS_TIMEOUT

\* a new timer of this kind and owner replaces the handle the owner remembers
Demote(ts, kind, g) ==
    [i \in 1..Len(ts) |->
        IF ts[i].kind = kind /\ ts[i].g = g THEN [ts[i] EXCEPT !.cur = FALSE] ELSE ts[i]]

SetTimeout(ts, kind, g) ==
    Append(Demote(ts, kind, g), [kind |-> kind, g |-> g, cur |-> TRUE])

\* variant: clearTimeout() is handed something that names no timer
ClearTimeoutNothing(ts, kind, g) == ts

\* clearTimeout(this.timeout_id): removes the timer the handle names, if still pending
ClearTimeout(ts, kind, g) ==
    SelectSeq(ts, LAMBDA t : ~(t.kind = kind /\ t.g = g /\ t.cur))

RemoveAt(ts, i) == [j \in 1..(Len(ts) - 1) |-> IF j < i THEN ts[j] ELSE ts[j + 1]]

\* the i-th timer is due before every timer created before it
CanFire(ts, i) == \A j \in 1..(i - 1) : TimerDelay(ts[j]) > TimerDelay(ts[i])

\* ------------------------------------------------------------------------
\* Jog throttle (index.js jog, jogPendingTimeout)
\* ------------------------------------------------------------------------
\* variant: a send starts no timer
jogNoTimeout(s, cmd) ==
    IF ~s.jog_pending /\ ~s.socket THEN Throw(s)
    ELSE IF ~s.jog_pending
    THEN [Emit(s, cmd) EXCEPT !.jog_pending = TRUE,
                              !.jogLegit = FALSE,
                              !.jogAnswered = FALSE]
    ELSE s

\* jog(cmd): emit only when no jog is pending; each send starts its own timer
jog(s, cmd) ==
    IF ~s.jog_pending /\ ~s.socket THEN Throw(s)
    ELSE IF ~s.jog_pending
    THEN [Emit(s, cmd) EXCEPT !.jog_pending = TRUE,
                              !.timers = SetTimeout(@, "jog", ""),
                              !.jogLegit = FALSE,
                              !.jogAnswered = FALSE]
    ELSE s

\* Selector.get()
SelectorGet(index, options) == options[index + 1]

jogShort(s, g) ==
    jog(s, Cmd("jog", "short",
               << <<GestureAxis[g],
                    GestureDir[g] * SelectorGet(s.step_distance_selection, STEP_DISTANCES)>> >>,
               SelectorGet(s.step_feedrate_selection, STEP_FEEDRATES)))

jogLong(s, g) ==
    jog(s, Cmd("jog", "long",
               << <<GestureAxis[g], GestureDir[g] * LONG_JOG_DISTANCE>> >>,
               SelectorGet(s.step_feedrate_selection, STEP_FEEDRATES)))

\* variant: the cancel goes through the jog throttle
cancelJogThrottled(s) == IF ~s.jog_pending THEN Emit(s, JOG_CANCEL_CMD) ELSE s

cancelJog(s) == Emit(s, JOG_CANCEL_CMD)

\* ------------------------------------------------------------------------
\* ButtonState
\* ------------------------------------------------------------------------
\* this.onShortPressed(), this.onLongPressed(), this.onLongCanceled() are entered
Called(s, g, callback) == [s EXCEPT !.calls = Append(@, <<g, callback>>)]

\* variant: press() arms a timer whatever the state
pressRestarts(s, g) ==
    [s EXCEPT !.bstate[g].pending = TRUE,
              !.timers = SetTimeout(@, "gesture", g)]

press(s, g) ==
    IF ~s.bstate[g].pending
    THEN [s EXCEPT !.bstate[g].pending = TRUE,
                   !.timers = SetTimeout(@, "gesture", g)]
    ELSE s

\* variant: the short-press branch forgets clearTimeout(this.timeout_id)
unpressKeepsTimer(s, g) ==
    IF s.bstate[g].pending
    THEN IF ~s.bstate[g].long_pressed
         THEN jogShort(Called([s EXCEPT !.bstate[g].pending = FALSE], g, "short"), g)
         ELSE cancelJog(Called([s EXCEPT !.bstate[g].pending = FALSE,
                                         !.bstate[g].long_pressed = FALSE],
                                  g, "cancel"))
    ELSE s

unpress(s, g) ==
    IF s.bstate[g].pending
    THEN IF ~s.bstate[g].long_pressed
         THEN jogShort(Called([s EXCEPT !.bstate[g].pending = FALSE,
                                        !.timers = ClearTimeout(@, "gesture", g)],
                                 g, "short"), g)
         ELSE cancelJog(Called([s EXCEPT !.bstate[g].pending = FALSE,
                                         !.bstate[g].long_pressed = FALSE],
                                  g, "cancel"))
    ELSE s

\* variant: the timeout forgets this.long_pressed = true
onTimeoutNoFlag(s, g) == jogLong(Called(s, g, "long"), g)

onTimeout(s, g) ==
    jogLong(Called([s EXCEPT !.bstate[g].long_pressed = TRUE], g, "long"), g)

\* ------------------------------------------------------------------------
\* Selector, AxisState
\* ------------------------------------------------------------------------
\* variant: increase() wraps around instead of saturating
SelectorIncreaseWraps(index, options) == (index + 1) % Len(options)

SelectorIncrease(index, options) == Min(index + 1, Len(options) - 1)
SelectorDecrease(index) == Max(index - 1, 0)

AxisUpdate(value) == [value |-> value, active |-> value # 0]
AxisSign(a) == Sign(a.value)

\* ------------------------------------------------------------------------
\* Button handlers
\* ------------------------------------------------------------------------
onXXX(s, value) == s

\* variant: releasing LB stops the spindle but leaves the flag set
onLBKeepsFlag(s, value) ==
    LET s1 == [s EXCEPT !.lb = (value # 0)]
        s2 == IF ~s1.lb THEN Emit(s1, JOG_CANCEL_CMD) ELSE s1
    IN  IF ~s2.lb /\ s2.spindle_active
        THEN Emit(s2, Plain("M5"))
        ELSE s2

onLB(s, value) ==
    LET s1 == [s EXCEPT !.lb = (value # 0)]
        s2 == IF ~s1.lb THEN Emit(s1, JOG_CANCEL_CMD) ELSE s1
    IN  IF ~s2.lb /\ s2.spindle_active
        THEN [Emit(s2, Plain("M5")) EXCEPT !.spindle_active = FALSE]
        ELSE s2

\* variant: M5 on every RB release, spindle running or not
onRBEveryRelease(s, value) ==
    LET s1 == [s EXCEPT !.rb = (value # 0)]
    IN  IF ~s1.rb
        THEN [Emit(s1, Plain("M5")) EXCEPT !.spindle_active = FALSE]
        ELSE s1

onRB(s, value) ==
    LET s1 == [s EXCEPT !.rb = (value # 0)]
    IN  IF ~s1.rb /\ s1.spindle_active
        THEN [Emit(s1, Plain("M5")) EXCEPT !.spindle_active = FALSE]
        ELSE s1

onStart(s, value) ==
    IF value = 1
    THEN IF ~s.rb THEN Emit(s, Plain("unlock")) ELSE Emit(s, Plain("reset"))
    ELSE s

onA(s, value) ==
    IF value = 1
    THEN IF ~s.lb /\ ~s.rb THEN Emit(s, Plain("resume"))
         ELSE IF s.lb THEN press(s, "a_z_down")
         ELSE s
    ELSE unpress(s, "a_z_down")

onB(s, value) ==
    IF value = 1 /\ ~s.rb THEN Emit(s, Plain("pause")) ELSE s

onX(s, value) == s

onY(s, value) ==
    IF value = 1
    THEN IF ~s.lb /\ ~s.rb THEN s
         ELSE IF s.lb THEN press(s, "y_z_up")
         ELSE IF s.rb THEN Emit(s, Plain("homing"))
         ELSE s
    ELSE unpress(s, "y_z_up")

onL3(s, value) == s
onR3(s, value) == s

\* ------------------------------------------------------------------------
\* Axis handlers
\* ------------------------------------------------------------------------
onPADX(s, value) ==
    IF s.lb
    THEN IF value = -JOYSTICK_AXIS_MAX THEN press(s, "pad_x_left")
         ELSE IF value = JOYSTICK_AXIS_MAX THEN press(s, "pad_x_right")
         ELSE unpress(unpress(s, "pad_x_left"), "pad_x_right")
    ELSE IF value = -JOYSTICK_AXIS_MAX
         THEN [s EXCEPT !.step_distance_selection = SelectorDecrease(@)]
         ELSE IF value = JOYSTICK_AXIS_MAX
         THEN [s EXCEPT !.step_distance_selection = SelectorIncrease(@, STEP_DISTANCES)]
         ELSE s

\* variant: the selector follows the pad whether LB is held or not
onPADYUngated(s, value) ==
    LET s1 == IF value = -JOYSTICK_AXIS_MAX
              THEN [s EXCEPT !.step_feedrate_selection = SelectorIncrease(@, STEP_FEEDRATES)]
              ELSE IF value = JOYSTICK_AXIS_MAX
              THEN [s EXCEPT !.step_feedrate_selection = SelectorDecrease(@)]
              ELSE s
    IN  IF s.lb
        THEN IF value = -JOYSTICK_AXIS_MAX THEN press(s1, "pad_y_up")
             ELSE IF value = JOYSTICK_AXIS_MAX THEN press(s1, "pad_y_down")
             ELSE unpress(unpress(s1, "pad_y_up"), "pad_y_down")
        ELSE s1

onPADY(s, value) ==
    IF s.lb
    THEN IF value = -JOYSTICK_AXIS_MAX THEN press(s, "pad_y_up")
         ELSE IF value = JOYSTICK_AXIS_MAX THEN press(s, "pad_y_down")
         ELSE unpress(unpress(s, "pad_y_up"), "pad_y_down")
    ELSE IF value = -JOYSTICK_AXIS_MAX
         THEN [s EXCEPT !.step_feedrate_selection = SelectorIncrease(@, STEP_FEEDRATES)]
         ELSE IF value = JOYSTICK_AXIS_MAX
         THEN [s EXCEPT !.step_feedrate_selection = SelectorDecrease(@)]
         ELSE s

onLT(s, value) == [s EXCEPT !.lt = value]
onRT(s, value) == [s EXCEPT !.rt = value]
onLSX(s, value) == [s EXCEPT !.left_x = AxisUpdate(value)]
onLSY(s, value) == [s EXCEPT !.left_y = AxisUpdate(-value)]
onRSX(s, value) == [s EXCEPT !.right_x = AxisUpdate(value)]
onRSY(s, value) == [s EXCEPT !.right_y = AxisUpdate(-value)]

\* BUTTONS[number].cb(value)
ButtonCb(s, number, value) ==
    LET id == BUTTONS[number]
    IN  CASE id = "A" -> onA(s, value)
          [] id = "B" -> onB(s, value)
          [] id = "X" -> onX(s, value)
          [] id = "Y" -> onY(s, value)
          [] id = "LB" -> onLB(s, value)
          [] id = "RB" -> onRB(s, value)
          [] id = "START" -> onStart(s, value)
          [] id = "L3" -> onL3(s, value)
          [] id = "R3" -> onR3(s, value)
          [] OTHER -> onXXX(s, value)

\* AXES[number].cb(value)
AxisCb(s, number, value) ==
    LET id == AXES[number]
    IN  CASE id = "LSX" -> onLSX(s, value)
          [] id = "LSY" -> onLSY(s, value)
          [] id = "RSX" -> onRSX(s, value)
          [] id = "RSY" -> onRSY(s, value)
          [] id = "RT" -> onRT(s, value)
          [] id = "LT" -> onLT(s, value)
          [] id = "PADX" -> onPADX(s, value)
          [] OTHER -> onPADY(s, value)

\* joy.on('button'): both branches read BUTTONS[e.number], which is undefined
\* for a number outside the table
ButtonListener(s, e) ==
    IF e.number \notin DOMAIN BUTTONS THEN Throw(s)
    ELSE IF e.init THEN s
    ELSE ButtonCb(s, e.number, e.value)

\* variant: the axis listener calls the handler for init events too
AxisListenerRunsInit(s, e) ==
    IF e.number \notin DOMAIN AXES THEN Throw(s)
    ELSE AxisCb(s, e.number, e.value)

\* joy.on('axis')
AxisListener(s, e) ==
    IF e.number \notin DOMAIN AXES THEN Throw(s)
    ELSE IF e.init THEN s
    ELSE AxisCb(s, e.number, e.value)

\* ------------------------------------------------------------------------
\* Numeric mapping and the continuous jog (index.js)
\* ------------------------------------------------------------------------
\* a / b rounded to the nearest integer (toFixed rounds; the model keeps no decimals)
RoundDiv(a, b) ==
    LET n == IF b < 0 THEN -a ELSE a
        d == Abs(b)
        m == Abs(n)
        q == (m \div d) + (IF 2 * (m % d) >= d THEN 1 ELSE 0)
    IN  IF n < 0 THEN -q ELSE q

\* the map() in force: the 3-argument declaration is the later one and wins
map(x, in_range_half, out_range_half) ==
    RoundDiv((x + in_range_half) * out_range_half, in_range_half) - out_range_half

\* the 5-argument map(), declared first and replaced by the later declaration
map5(x, in_min, in_max, out_min, out_max) ==
    RoundDiv((x - in_min) * (out_max - out_min), in_max - in_min) + out_min

RECURSIVE SqrtSearch(_, _, _)
SqrtSearch(n, lo, hi) ==
    IF lo >= hi THEN lo
    ELSE LET mid == (lo + hi + 1) \div 2
         IN  IF mid * mid <= n THEN SqrtSearch(n, mid, hi) ELSE SqrtSearch(n, lo, mid - 1)

\* Math.sqrt, to the integer below (the argument is bound once, as a value)
Sqrt(n) == CHOOSE r \in {SqrtSearch(v, 0, 2 * MAX_JOG_FEEDRATE) : v \in {n}} : TRUE

feedrate(value) == Abs(map(value, JOYSTICK_AXIS_MAX, MAX_JOG_FEEDRATE))

decideFeedrate(x, y, z) ==
    LET jog_feedrate == Sqrt(feedrate(x.value) * feedrate(x.value)
                             + feedrate(y.value) * feedrate(y.value))
        z_jog_feedrate == feedrate(z.value)
    IN  IF z.active
        THEN IF jog_feedrate # 0 THEN Min(jog_feedrate, z_jog_feedrate) ELSE z_jog_feedrate
        ELSE jog_feedrate

\* (jog_feedrate / 60) * (JOG_COMMAND_INTERVAL / 1000) * 1.2 mm, in 1/100 mm
jogDistance(jog_feedrate) == RoundDiv(jog_feedrate * JOG_COMMAND_INTERVAL * 12, 6000)

\* variant: the Z term is appended whether the depth stick is active or not
motionVectorAlwaysZ(x, y, z, jog_feedrate) ==
    LET jog_distance == jogDistance(jog_feedrate)
    IN  (IF x.active THEN << <<"X", AxisSign(x) * jog_distance>> >> ELSE <<>>)
        \o (IF y.active THEN << <<"Y", AxisSign(y) * jog_distance>> >> ELSE <<>>)
        \o << <<"Z", AxisSign(z) * jog_distance>> >>

motionVector(x, y, z, jog_feedrate) ==
    LET jog_distance == jogDistance(jog_feedrate)
    IN  (IF x.active THEN << <<"X", AxisSign(x) * jog_distance>> >> ELSE <<>>)
        \o (IF y.active THEN << <<"Y", AxisSign(y) * jog_distance>> >> ELSE <<>>)
        \o (IF z.active THEN << <<"Z", AxisSign(z) * jog_distance>> >> ELSE <<>>)

stickMovement(s) ==
    IF s.lb /\ (s.left_x.active \/ s.left_y.active \/ s.right_y.active)
    THEN LET jog_feedrate == decideFeedrate(s.left_x, s.left_y, s.right_y)
         IN  jog(s, Cmd("jog", "stick",
                        motionVector(s.left_x, s.left_y, s.right_y, jog_feedrate),
                        jog_feedrate))
    ELSE s

\* variant: the spindle needs LB only
triggerMovementSingleDeadman(s) ==
    IF s.lb
    THEN Emit([s EXCEPT !.spindle_active = TRUE],
              Cmd("M3", "", <<>>, map(s.rt, -JOYSTICK_AXIS_MAX, JOYSTICK_AXIS_MAX)))
    ELSE s

triggerMovement(s) ==
    IF s.lb /\ s.rb
    THEN Emit([s EXCEPT !.spindle_active = TRUE],
              Cmd("M3", "", <<>>, map(s.rt, -JOYSTICK_AXIS_MAX, JOYSTICK_AXIS_MAX)))
    ELSE s

\* ------------------------------------------------------------------------
\* Decoder and filter (joystick.js)
\* ------------------------------------------------------------------------
Bit(t, k) == (t \div k) % 2 = 1

\* parse(buffer): rec is the 8-byte record, [type, value, number]
parse(rec) ==
    [value |-> rec.value,
     number |-> rec.number,
     init |-> Bit(rec.type, 128),
     type |-> IF Bit(rec.type, 2) THEN "axis"
              ELSE IF Bit(rec.type, 1) THEN "button"
              ELSE Undef]

\* lastAxisValue[n] && ... : an unwritten slot and a recorded 0 are both falsy
Truthy(v) == v # NoValue /\ v # 0

SensitivitySquelch(last, value, sensitivity) ==
    /\ sensitivity # 0
    /\ Truthy(last)
    /\ Abs(last - value) < sensitivity
    /\ value # 0

\* variant: the clamp tests against the sensitivity, not the deadzone
DeadzoneClampBySensitivity(value, deadzone) ==
    IF deadzone # 0 /\ Abs(value) < JOYSTICK_SENSITIVITY THEN 0 ELSE value

DeadzoneClamp(value, deadzone) ==
    IF deadzone # 0 /\ Abs(value) < deadzone THEN 0 ELSE value

\* variant: lastAxisValue follows every reading, squelched or not
FilterAxisTracksEvery(last, lastEmitted, value, deadzone, sensitivity) ==
    LET sq1 == SensitivitySquelch(last, value, sensitivity)
        newLast == IF sensitivity # 0 THEN value ELSE last
        v2 == DeadzoneClamp(value, deadzone)
        sq2 == (lastEmitted = v2)
    IN  [last |-> newLast,
         emitted |-> IF sq2 THEN lastEmitted ELSE v2,
         value |-> v2,
         squelch |-> sq1 \/ sq2]

\* the axis branch of onRead: new filter slots, filtered value, squelch flag
FilterAxis(last, lastEmitted, value, deadzone, sensitivity) ==
    LET sq1 == SensitivitySquelch(last, value, sensitivity)
        newLast == IF sensitivity # 0 /\ ~sq1 THEN value ELSE last
        v2 == DeadzoneClamp(value, deadzone)
        sq2 == (lastEmitted = v2)
    IN  [last |-> newLast,
         emitted |-> IF sq2 THEN lastEmitted ELSE v2,
         value |-> v2,
         squelch |-> sq1 \/ sq2]

\* ------------------------------------------------------------------------
\* socket.on('serialport:read')
\* ------------------------------------------------------------------------
\* String.prototype.includes on lines kept as sequences of characters
Includes(data, pat) ==
    \E i \in 0..(Len(data) - Len(pat)) : \A j \in 1..Len(pat) : data[i + j] = pat[j]

OK_TEXT == <<"o", "k">>
ERROR_TEXT == <<"e", "r", "r", "o", "r">>

\* clearTimeout(jogPendingTimeout) is handed the callback, not a timer handle,
\* and clears nothing
\* own: the line is the controller's response to the last jog sent (the
\* handler cannot tell and does not look)
serialportRead(s, data, own) ==
    LET s1 == [s EXCEPT !.jogAnswered = (@ \/ own)]
    IN  IF Includes(data, OK_TEXT) \/ Includes(data, ERROR_TEXT)
        THEN [s1 EXCEPT !.jog_pending = FALSE, !.jogLegit = TRUE]
        ELSE s1

jogPendingTimeout(s, own) ==
    [s EXCEPT !.jog_pending = FALSE, !.jogLegit = (@ \/ own)]

\* ------------------------------------------------------------------------
\* Initial state: after module.exports has run
\* ------------------------------------------------------------------------
NoHist == [raw |-> NoValue, fwd |-> NoValue, first |-> NoValue, scenario |-> 0]

\* control 0's records since construction: an init record with value 0, then
\* 20000, then 20050 (less than the sensitivity further)
ScenarioRecords ==
    << [type |-> 130, value |-> 0], [type |-> 2, value |-> 20000],
       [type |-> 2, value |-> 20050] >>

\* records matched after rec, or Len + 1 once the control's records differ
ScenarioStep(k, rec) ==
    IF /\ k < Len(ScenarioRecords)
       /\ rec.type = ScenarioRecords[k + 1].type
       /\ rec.value = ScenarioRecords[k + 1].value
    THEN k + 1
    ELSE Len(ScenarioRecords) + 1

NoEv == [op |-> "none", type |-> Undef, number |-> 0, init |-> FALSE, raw |-> 0,
         value |-> 0, forwarded |-> FALSE, prevRaw |-> NoValue, prevFwd |-> NoValue,
         runFirst |-> NoValue, distanceBefore |-> 0, feedrateBefore |-> 0]

Init ==
    /\ fd = FALSE
    /\ lastAxisValue = [n \in AxisNumbers |-> NoValue]
    /\ lastAxisEmittedValue = [n \in AxisNumbers |-> NoValue]
    /\ opening = 0
    /\ reading = 0
    /\ controller_connected = FALSE
    /\ jog_pending = FALSE
    /\ lb = FALSE /\ rb = FALSE /\ lt = 0 /\ rt = 0
    /\ spindle_active = FALSE
    /\ bstate = [g \in Gestures |-> [pending |-> FALSE, long_pressed |-> FALSE]]
    /\ timers = <<>>
    /\ step_distance_selection = DEFAULT_STEP_INDEX
    /\ step_feedrate_selection = DEFAULT_STEP_INDEX
    /\ left_x = [value |-> 0, active |-> FALSE]
    /\ left_y = [value |-> 0, active |-> FALSE]
    /\ right_x = [value |-> 0, active |-> FALSE]
    /\ right_y = [value |-> 0, active |-> FALSE]
    /\ crashed = FALSE
    /\ socket = TRUE
    /\ held = {}
    /\ synced = TRUE
    /\ out = <<>>
    /\ ev = NoEv
    /\ hist = [n \in AxisNumbers |-> NoHist]
    /\ calls = <<>>
    /\ jogLegit = TRUE
    /\ jogAnswered = TRUE
    /\ spindleOn = FALSE

\* ------------------------------------------------------------------------
\* Device lifecycle
\* ------------------------------------------------------------------------
\* variant: the tick opens the device whatever the connected flag says
CheckControllerAlways ==
    /\ ~crashed
    /\ opening < MaxOpening
    /\ opening' = opening + 1
    /\ ev' = NoEv
    /\ Commit(Engine)
    /\ UNCHANGED <<fd, lastAxisValue, lastAxisEmittedValue, reading, held, synced, hist>>

\* checkController(joy) with fewer than maxOpening fs.open calls in progress
Poll(maxOpening) ==
    /\ ~crashed
    /\ ~controller_connected
    /\ opening < maxOpening
    /\ opening' = opening + 1
    /\ ev' = NoEv
    /\ Commit(Engine)
    /\ UNCHANGED <<fd, lastAxisValue, lastAxisEmittedValue, reading, held, synced, hist>>

\* setInterval(checkController, 3000) -> joy.open()
CheckController == Poll(MaxOpening)

\* onOpen(err, fdOpened) with fewer than maxReading fs.read calls outstanding
Opened(err, maxReading) ==
    /\ ~crashed
    /\ opening > 0
    /\ opening' = opening - 1
    /\ ev' = NoEv
    /\ IF err
       THEN /\ Commit([Engine EXCEPT !.controller_connected = FALSE])
            /\ UNCHANGED <<fd, reading, synced>>
       ELSE /\ reading < maxReading
            /\ Commit([Engine EXCEPT !.controller_connected = TRUE])
            /\ fd' = TRUE
            /\ reading' = reading + 1
            /\ synced' = FALSE
    /\ UNCHANGED <<lastAxisValue, lastAxisEmittedValue, held, hist>>

\* onOpen(err, fdOpened)
OnOpen(err) == Opened(err, MaxReading)

\* onRead(err, bytesRead) with err set
OnReadError ==
    /\ ~crashed
    /\ reading > 0
    /\ reading' = reading - 1
    /\ ev' = NoEv
    /\ Commit([Engine EXCEPT !.controller_connected = FALSE])
    /\ UNCHANGED <<fd, lastAxisValue, lastAxisEmittedValue, opening, held, synced, hist>>

\* what the joystick driver can deliver next: init records only in the burst
\* that follows an open, a button record only for a change of that button
DeviceCanSend(rec) ==
    LET e == parse(rec)
    IN  /\ e.init => ~synced
        /\ e.type = "button" =>
              rec.value = (IF (rec.number \in held) = e.init THEN 1 ELSE 0)

\* onRead(err, bytesRead) without err: decode, filter, emit to the listener
OnRead(rec) ==
    /\ ~crashed
    /\ reading > 0
    /\ DeviceCanSend(rec)
    /\ LET event == parse(rec)
           n == event.number
           isAxis == event.type = "axis"
           f == IF isAxis
                THEN FilterAxis(lastAxisValue[n], lastAxisEmittedValue[n], event.value,
                                JOYSTICK_DEADZONE, JOYSTICK_SENSITIVITY)
                ELSE [last |-> NoValue, emitted |-> NoValue, value |-> event.value,
                      squelch |-> FALSE]
           e2 == [event EXCEPT !.value = f.value]
           s1 == IF f.squelch THEN Engine
                 ELSE IF e2.type = "button" THEN ButtonListener(Engine, e2)
                 ELSE IF e2.type = "axis" THEN AxisListener(Engine, e2)
                 ELSE Engine
           h == IF isAxis THEN hist[n] ELSE NoHist
           inRun == /\ h.first # NoValue
                    /\ Abs(event.value - h.first) < JOYSTICK_SENSITIVITY
                    /\ event.value # 0
       IN  /\ Commit(s1)
           /\ IF isAxis
              THEN /\ lastAxisValue' = [lastAxisValue EXCEPT ![n] = f.last]
                   /\ lastAxisEmittedValue' = [lastAxisEmittedValue EXCEPT ![n] = f.emitted]
                   /\ hist' = [hist EXCEPT ![n] =
                                 [raw |-> event.value,
                                  fwd |-> IF f.squelch THEN h.fwd ELSE f.value,
                                  first |-> IF inRun THEN h.first
                                            ELSE IF event.value # 0 THEN event.value
                                            ELSE NoValue,
                                  scenario |-> IF n = 0 THEN ScenarioStep(h.scenario, rec)
                                               ELSE h.scenario]]
              ELSE UNCHANGED <<lastAxisValue, lastAxisEmittedValue, hist>>
           /\ ev' = [op |-> "read", type |-> event.type, number |-> n, init |-> event.init,
                     raw |-> event.value, value |-> f.value, forwarded |-> ~f.squelch,
                     prevRaw |-> h.raw, prevFwd |-> h.fwd,
                     runFirst |-> IF inRun THEN h.first ELSE NoValue,
                     distanceBefore |-> step_distance_selection,
                     feedrateBefore |-> step_feedrate_selection]
           /\ reading' = IF s1.crashed THEN reading - 1 ELSE reading
           /\ held' = IF event.type = "button" /\ ~event.init
                      THEN (IF n \in held THEN held \ {n} ELSE held \cup {n})
                      ELSE held
           /\ synced' = (synced \/ ~event.init)
           /\ UNCHANGED <<fd, opening>>

\* ------------------------------------------------------------------------
\* Timers, ticks, socket messages
\* ------------------------------------------------------------------------
\* a setTimeout callback runs: ButtonState.onTimeout or jogPendingTimeout
TimerFire(i) ==
    /\ ~crashed
    /\ i \in 1..Len(timers)
    /\ CanFire(timers, i)
    /\ LET t == timers[i]
           s0 == [Engine EXCEPT !.timers = RemoveAt(@, i)]
       IN  Commit(IF t.kind = "jog" THEN jogPendingTimeout(s0, t.cur) ELSE onTimeout(s0, t.g))
    /\ ev' = NoEv
    /\ UNCHANGED <<fd, lastAxisValue, lastAxisEmittedValue, opening, reading, held, synced, hist>>

\* setInterval(stickMovement, JOG_COMMAND_INTERVAL)
StickTick ==
    /\ ~crashed
    /\ Commit(stickMovement(Engine))
    /\ ev' = NoEv
    /\ UNCHANGED <<fd, lastAxisValue, lastAxisEmittedValue, opening, reading, held, synced, hist>>

\* setInterval(triggerMovement, 5000)
TriggerTick ==
    /\ ~crashed
    /\ Commit(triggerMovement(Engine))
    /\ ev' = NoEv
    /\ UNCHANGED <<fd, lastAxisValue, lastAxisEmittedValue, opening, reading, held, synced, hist>>

\* socket.on('serialport:read'): a response line (ok / error) comes once per
\* command and can be the last jog's only while that is unanswered; every
\* other line is a status report or answers something else
SerialportRead(data, own) ==
    /\ ~crashed
    /\ socket
    /\ own => (~jogAnswered /\ (Includes(data, OK_TEXT) \/ Includes(data, ERROR_TEXT)))
    /\ Commit(serialportRead(Engine, data, own))
    /\ ev' = NoEv
    /\ UNCHANGED <<fd, lastAxisValue, lastAxisEmittedValue, opening, reading, held, synced, hist>>

\* socket.on('error')
SocketError ==
    /\ ~crashed
    /\ Commit(socketError(Engine))
    /\ ev' = NoEv
    /\ UNCHANGED <<fd, lastAxisValue, lastAxisEmittedValue, opening, reading, held, synced, hist>>

\* ------------------------------------------------------------------------
\* Inputs
\* ------------------------------------------------------------------------
\* js_event.type: JS_EVENT_BUTTON, JS_EVENT_AXIS, each with or without JS_EVENT_INIT
ButtonTypes == {1, 129}
AxisTypes == {2, 130}

Records(buttons, axes, values) ==
    [type : ButtonTypes, value : {0, 1}, number : buttons]
    \cup [type : AxisTypes, value : values, number : axes]

\* full deflection either way, or neutral
FullValues == {-JOYSTICK_AXIS_MAX, 0, JOYSTICK_AXIS_MAX}

\* jogging: A, LB and the left stick's X axis
JogRecords == Records({0, 6}, {0}, FullValues)

\* selection: both pad axes, LB never pressed
SelectRecords == Records({}, {6, 7}, FullValues)

\* dispatch: LB, button 15 (outside BUTTONS), PADX, axis 8 (outside AXES)
DispatchRecords == Records({6, 15}, {6, 8}, FullValues)

\* the filter: one stick (LSX), raw values around the deadzone and less than
\* the sensitivity apart
FilterValues == {-760, 0, 50, 700, 760, 820, 20000, 20050}
FilterRecords == Records({}, {0}, FilterValues)

\* the spindle: LB, RB and the right trigger
SpindleRecords == Records({6, 7}, {4}, FullValues)

\* pad gestures: LB and the pad's X axis
PadRecords == Records({6}, {6}, FullValues)

\* continuous jog: LB and the left stick's X axis
StickRecords == Records({6}, {0}, FullValues)

\* the pad, gated by LB: LB, PADX either way, PADY between neutral and up
GateRecords ==
    Records({6}, {6}, FullValues) \cup Records({}, {7}, {-JOYSTICK_AXIS_MAX, 0})

\* the three jog sticks: LB, LSX either way, LSY between rest and up, RSY
\* between rest and down
SticksRecords ==
    Records({6}, {0}, FullValues)
    \cup Records({}, {1}, {-JOYSTICK_AXIS_MAX, 0})
    \cup Records({}, {3}, {0, JOYSTICK_AXIS_MAX})

Lines ==
    {<<"o", "k">>,
     <<"e", "r", "r", "o", "r", ":", "2">>,
     <<"<", "I", "d", "l", "e", ">">>}

\* ------------------------------------------------------------------------
\* Specifications
\* ------------------------------------------------------------------------
\* jogging with the deadman, gestures, the jog throttle
Next ==
    \/ CheckController
    \/ OnOpen(FALSE)
    \/ \E rec \in JogRecords : OnRead(rec)
    \/ \E i \in 1..Len(timers) : TimerFire(i)
    \/ StickTick
    \/ \E data \in Lines, own \in BOOLEAN : SerialportRead(data, own)

Spec == Init /\ [][Next]_vars

\* the pad without the deadman: step distance and step feedrate selection
NextSelect ==
    \/ CheckController
    \/ OnOpen(FALSE)
    \/ \E rec \in SelectRecords : OnRead(rec)

SpecSelect == Init /\ [][NextSelect]_vars

\* dispatch of known, unknown and init records, across device errors and reopens
NextDispatch ==
    \/ CheckController
    \/ \E err \in BOOLEAN : OnOpen(err)
    \/ OnReadError
    \/ \E rec \in DispatchRecords : OnRead(rec)
    \/ \E i \in 1..Len(timers) : TimerFire(i)

SpecDispatch == Init /\ [][NextDispatch]_vars

\* the decoder and filter driven with raw values close to each other
NextFilter ==
    \/ CheckController
    \/ \E err \in BOOLEAN : OnOpen(err)
    \/ OnReadError
    \/ \E rec \in FilterRecords : OnRead(rec)

SpecFilter == Init /\ [][NextFilter]_vars

\* the spindle: both deadman buttons, the right trigger, the slow tick
NextSpindle ==
    \/ CheckController
    \/ OnOpen(FALSE)
    \/ \E rec \in SpindleRecords : OnRead(rec)
    \/ TriggerTick

SpecSpindle == Init /\ [][NextSpindle]_vars

\* pad gestures under every ordering of LB, pad and the timers
NextPad ==
    \/ CheckController
    \/ OnOpen(FALSE)
    \/ \E rec \in PadRecords : OnRead(rec)
    \/ \E i \in 1..Len(timers) : TimerFire(i)

SpecPad == Init /\ [][NextPad]_vars

\* continuous jog; node runs every timer that is due and every interval
\* tick, while responses from the controller may never come
NextStick ==
    \/ CheckController
    \/ OnOpen(FALSE)
    \/ \E rec \in StickRecords : OnRead(rec)
    \/ \E i \in 1..Len(timers) : TimerFire(i)
    \/ StickTick
    \/ \E data \in Lines, own \in BOOLEAN : SerialportRead(data, own)

SpecStick ==
    /\ Init
    /\ [][NextStick]_vars
    /\ WF_vars(\E i \in 1..Len(timers) : TimerFire(i))
    /\ WF_vars(StickTick)

\* both pad axes with and without the deadman
NextGate ==
    \/ CheckController
    \/ OnOpen(FALSE)
    \/ \E rec \in GateRecords : OnRead(rec)

SpecGate == Init /\ [][NextGate]_vars

\* the continuous jog built from the three sticks
NextSticks ==
    \/ CheckController
    \/ OnOpen(FALSE)
    \/ \E rec \in SticksRecords : OnRead(rec)
    \/ \E i \in 1..Len(timers) : TimerFire(i)
    \/ StickTick

SpecSticks == Init /\ [][NextSticks]_vars

\* the reconnect poll: setInterval runs checkController again and again
NextPoll ==
    \/ CheckController
    \/ \E err \in BOOLEAN : OnOpen(err)
    \/ OnReadError
    \/ \E rec \in FilterRecords : OnRead(rec)

SpecPoll == Init /\ [][NextPoll]_vars /\ WF_vars(CheckController)

\* jogging while the connection to the server can fail
NextChannel ==
    \/ CheckController
    \/ OnOpen(FALSE)
    \/ \E rec \in JogRecords : OnRead(rec)
    \/ \E i \in 1..Len(timers) : TimerFire(i)
    \/ StickTick
    \/ SocketError

SpecChannel == Init /\ [][NextChannel]_vars

\* the device lifecycle when fs.open can take longer than a poll interval
NextChain ==
    \/ Poll(MaxChainOpening)
    \/ \E err \in BOOLEAN : Opened(err, MaxChainReading)
    \/ OnReadError
    \/ \E rec \in FilterRecords : OnRead(rec)

SpecChain == Init /\ [][NextChain]_vars

\* ------------------------------------------------------------------------
\* Properties
\* ------------------------------------------------------------------------
JogSent(o) == \E i \in 1..Len(o) : o[i].kind = "jog"

\* the callbacks of one ButtonState among those the step invoked, in order
CallsOf(cs, g) ==
    LET sel == SelectSeq(cs, LAMBDA c : c[1] = g)
    IN  [i \in 1..Len(sel) |-> sel[i][2]]

HasTimer(ts, g) == \E i \in 1..Len(ts) : ts[i].kind = "gesture" /\ ts[i].g = g

PressPending(b) == b.pending /\ ~b.long_pressed
AxisRead(e) == e.op = "read" /\ e.type = "axis"

\* C1: whenever a step emits a jog command ($J=...), LB is held.
DeadmanForJog == JogSent(out) => lb

\* C2: a jog command is sent only if, since the previous jog command was
\* sent, an ok/error line has arrived or that command's own timeout has fired.
SingleInFlightJog == [][JogSent(out') => jogLegit]_vars

\* C3: an unpress() that finds the gesture pressed with its timeout not yet
\* fired invokes the short-press callback once and nothing else, and leaves
\* no timer of that gesture pending; a long-press callback is only ever
\* invoked for a gesture that is still pressed and waiting.
ShortPressOnce ==
    [][\A g \in Gestures :
          /\ (PressPending(bstate[g]) /\ ~bstate'[g].pending)
                => /\ CallsOf(calls', g) = <<"short">>
                   /\ ~HasTimer(timers', g)
          /\ (\E i \in 1..Len(calls') : calls'[i] = <<g, "long">>)
                => PressPending(bstate[g])]_vars

ShortPressWitness ==
    \E g \in Gestures :
        /\ calls = << <<g, "short">> >>
        /\ ~bstate[g].pending
        /\ JogSent(out)

\* C4: the timeout of a pressed gesture invokes the long-press callback once
\* and leaves the gesture long-active with no timer pending; the unpress()
\* that follows invokes the long-cancel callback once and nothing else and
\* leaves the gesture idle; a step that does not change the gesture's state
\* invokes none of its callbacks.
LongPressOnce ==
    [][\A g \in Gestures :
          /\ (PressPending(bstate[g]) /\ bstate'[g].long_pressed)
                => /\ CallsOf(calls', g) = <<"long">>
                   /\ bstate'[g].pending
                   /\ ~HasTimer(timers', g)
          /\ (bstate[g].long_pressed /\ ~bstate'[g].long_pressed)
                => /\ CallsOf(calls', g) = <<"cancel">>
                   /\ ~bstate'[g].pending
          /\ (bstate'[g] = bstate[g]) => CallsOf(calls', g) = <<>>]_vars

LongPressWitness ==
    \E g \in Gestures :
        /\ calls = << <<g, "cancel">> >>
        /\ ~bstate[g].pending
        /\ ~bstate[g].long_pressed

\* the last step was a forwarded, non-init event of this axis with this value
PadStep(e, number, value) ==
    /\ AxisRead(e) /\ e.forwarded /\ ~e.init
    /\ e.number = number /\ e.value = value

InBounds(index, options) == index \in 0..(Len(options) - 1)
Elements(options) == {options[i] : i \in 1..Len(options)}

\* C5: both selector indexes stay within 0..len-1, get() returns an element
\* of the options, and increase() at the last index and decrease() at index 0
\* leave the index where it is.
SelectorBounds ==
    /\ InBounds(step_distance_selection, STEP_DISTANCES)
    /\ InBounds(step_feedrate_selection, STEP_FEEDRATES)
    /\ SelectorGet(step_distance_selection, STEP_DISTANCES) \in Elements(STEP_DISTANCES)
    /\ SelectorGet(step_feedrate_selection, STEP_FEEDRATES) \in Elements(STEP_FEEDRATES)
    /\ (~lb /\ PadStep(ev, 6, JOYSTICK_AXIS_MAX))
          => step_distance_selection =
                IF ev.distanceBefore = Len(STEP_DISTANCES) - 1
                THEN ev.distanceBefore ELSE ev.distanceBefore + 1
    /\ (~lb /\ PadStep(ev, 6, -JOYSTICK_AXIS_MAX))
          => step_distance_selection =
                IF ev.distanceBefore = 0 THEN 0 ELSE ev.distanceBefore - 1
    /\ (~lb /\ PadStep(ev, 7, -JOYSTICK_AXIS_MAX))
          => step_feedrate_selection =
                IF ev.feedrateBefore = Len(STEP_FEEDRATES) - 1
                THEN ev.feedrateBefore ELSE ev.feedrateBefore + 1
    /\ (~lb /\ PadStep(ev, 7, JOYSTICK_AXIS_MAX))
          => step_feedrate_selection =
                IF ev.feedrateBefore = 0 THEN 0 ELSE ev.feedrateBefore - 1

\* increase() was called at the last index, and decrease() had reached 0 before
SelectorWitness ==
    /\ PadStep(ev, 6, JOYSTICK_AXIS_MAX)
    /\ ev.distanceBefore = Len(STEP_DISTANCES) - 1
    /\ step_distance_selection = Len(STEP_DISTANCES) - 1
    /\ step_feedrate_selection = 0

\* C6: a forwarded axis event whose raw value is inside the deadzone carries 0;
\* no forwarded axis event carries a non-zero value inside the deadzone.
DeadzoneZero ==
    (AxisRead(ev) /\ ev.forwarded)
        => /\ Abs(ev.raw) < JOYSTICK_DEADZONE => ev.value = 0
           /\ ev.value = 0 \/ Abs(ev.value) >= JOYSTICK_DEADZONE

DeadzoneWitness ==
    /\ AxisRead(ev) /\ ev.forwarded
    /\ ev.raw # 0 /\ Abs(ev.raw) < JOYSTICK_DEADZONE
    /\ ev.value = 0

NoDuplicateEmission ==
    (AxisRead(ev) /\ ev.forwarded /\ ev.prevFwd # NoValue)
        => ev.value # ev.prevFwd

OutsideTable(e) ==
    \/ e.type = "button" /\ e.number \notin DOMAIN BUTTONS
    \/ e.type = "axis" /\ e.number \notin DOMAIN AXES

\* C9: an event for a control outside the dispatch table does not end the process.
UnknownControlDropped ==
    (ev.op = "read" /\ ev.forwarded /\ OutsideTable(ev)) => ~crashed

\* C10: a step that processes an init event leaves the modifier flags, the
\* gestures and their timers, the selectors, the stick states, the trigger
\* values and the in-flight flag as they were, invokes no gesture callback
\* and emits no command.
InitInformational ==
    [][(ev'.op = "read" /\ ev'.init)
          => /\ UNCHANGED <<lb, rb, lt, rt, spindle_active, jog_pending, bstate, timers,
                            step_distance_selection, step_feedrate_selection,
                            left_x, left_y, right_x, right_y>>
             /\ out' = <<>>
             /\ calls' = <<>>]_vars

\* an init event of a known control was forwarded to the listener while LB was
\* held, with a value its handler would have acted on
InitWitness ==
    /\ ev.op = "read" /\ ev.init /\ ev.forwarded
    /\ ev.type = "axis" /\ ev.number = 6 /\ ev.value = JOYSTICK_AXIS_MAX
    /\ lb
    /\ ~crashed

CountOf(o, kind) == Cardinality({i \in 1..Len(o) : o[i].kind = kind})

\* C11: a step emits at most one M5, and only if an M3 has been emitted since
\* the previous M5 (so between two M5 there is an M3); once an M3 has been
\* emitted, the first release of LB or of RB emits exactly one M5.
SpindleOffOnEdge ==
    [][/\ CountOf(out', "M5") <= 1
       /\ CountOf(out', "M5") = 1 => spindleOn
       /\ (spindleOn /\ ((lb /\ ~lb') \/ (rb /\ ~rb')))
             => (CountOf(out', "M5") = 1 /\ ~spindleOn')]_vars

\* RB was released while the spindle was running
SpindleOffWitness ==
    /\ out = <<Plain("M5")>>
    /\ lb /\ ~rb
    /\ ~spindleOn /\ ~spindle_active

\* C12: every M3 carries the linear image of the trigger value on
\* SPINDLE_MIN_SPEED..SPINDLE_MAX_SPEED, so 0 <= S <= 24000.
SpindleSpeedRange ==
    \A i \in 1..Len(out) :
        out[i].kind = "M3"
            => /\ out[i].arg >= SPINDLE_MIN_SPEED
               /\ out[i].arg <= SPINDLE_MAX_SPEED
               /\ out[i].arg = map5(rt, -JOYSTICK_AXIS_MAX, JOYSTICK_AXIS_MAX,
                                     SPINDLE_MIN_SPEED, SPINDLE_MAX_SPEED)

\* C13: an M3 is emitted only by a step that reads no record (the slow
\* tick), and only while LB and RB are both held.
SpindleDeadman ==
    [][CountOf(out', "M3") > 0
          => /\ lb /\ rb
             /\ ev'.op = "none"
             /\ CountOf(out', "M3") = Len(out')
             /\ Len(out') = 1]_vars

\* the slow tick found both buttons held and the trigger pressed
SpindleDeadmanWitness ==
    /\ CountOf(out, "M3") = 1
    /\ lb /\ rb
    /\ rt = JOYSTICK_AXIS_MAX
    /\ spindle_active

\* the last step was a forwarded, non-init event of this button with this value
ButtonStep(e, number, value) ==
    /\ e.op = "read" /\ e.type = "button" /\ e.forwarded /\ ~e.init
    /\ e.number = number /\ e.value = value

\* C14: every LB release event and every unpress() of a long-active gesture
\* emits the jog-cancel sequence in the same step, whether or not a jog is in
\* flight; a step that emits jog-cancel and no jog leaves jog_pending as it was.
CancelNotThrottled ==
    [][/\ ButtonStep(ev', 6, 0) => CountOf(out', "cancel") >= 1
       /\ \A g \in Gestures :
             (bstate[g].long_pressed /\ ~bstate'[g].long_pressed)
                => CountOf(out', "cancel") >= 1
       /\ (CountOf(out', "cancel") >= 1 /\ ~JogSent(out'))
             => jog_pending' = jog_pending]_vars

\* a long-active gesture was released while a jog was in flight
CancelWitness ==
    /\ jog_pending
    /\ out = <<JOG_CANCEL_CMD>>
    /\ \E g \in Gestures : calls = << <<g, "cancel">> >>

\* C15: on a fresh filter, control 0 reads value 0 (init), then 20000, then
\* 20050: the second record is forwarded as a non-init event with value
\* 20000, the third is not forwarded and leaves lastAxisValue[0] and
\* lastAxisEmittedValue[0] at 20000.
FilterScenario ==
    (AxisRead(ev) /\ ev.number = 0)
        => /\ hist[0].scenario = 1 => ev.init
           /\ hist[0].scenario = 2
                 => (ev.forwarded /\ ~ev.init /\ ev.value = 20000)
           /\ hist[0].scenario = 3
                 => /\ ~ev.forwarded
                    /\ lastAxisValue[0] = 20000
                    /\ lastAxisEmittedValue[0] = 20000

\* the state of a ButtonState; "Neither" is long_pressed without pending
GState(b) ==
    IF b.pending
    THEN (IF b.long_pressed THEN "LongActive" ELSE "PressPending")
    ELSE (IF b.long_pressed THEN "Neither" ELSE "Idle")

GTransitions ==
    {<<"Idle", "PressPending">>, <<"PressPending", "Idle">>,
     <<"PressPending", "LongActive">>, <<"LongActive", "Idle">>}

\* the step's event made the handler call g.press() / g.unpress()
PressCalled(e, l, g) ==
    \/ l /\ ButtonStep(e, 0, 1) /\ g = "a_z_down"
    \/ l /\ ButtonStep(e, 4, 1) /\ g = "y_z_up"
    \/ l /\ PadStep(e, 6, -JOYSTICK_AXIS_MAX) /\ g = "pad_x_left"
    \/ l /\ PadStep(e, 6, JOYSTICK_AXIS_MAX) /\ g = "pad_x_right"
    \/ l /\ PadStep(e, 7, -JOYSTICK_AXIS_MAX) /\ g = "pad_y_up"
    \/ l /\ PadStep(e, 7, JOYSTICK_AXIS_MAX) /\ g = "pad_y_down"

UnpressCalled(e, l, g) ==
    \/ ButtonStep(e, 0, 0) /\ g = "a_z_down"
    \/ ButtonStep(e, 4, 0) /\ g = "y_z_up"
    \/ l /\ PadStep(e, 6, 0) /\ g \in {"pad_x_left", "pad_x_right"}
    \/ l /\ PadStep(e, 7, 0) /\ g \in {"pad_y_up", "pad_y_down"}

\* C16: a ButtonState is always Idle, PressPending or LongActive
\* (long_pressed implies pending); its state changes only along
\* Idle->PressPending, PressPending->Idle, PressPending->LongActive,
\* LongActive->Idle; press() on a gesture that is not Idle starts no timer
\* and changes nothing; unpress() on an Idle gesture invokes no callback.
GestureShape ==
    [][\A g \in Gestures :
          /\ GState(bstate'[g]) # "Neither"
          /\ GState(bstate'[g]) # GState(bstate[g])
                => <<GState(bstate[g]), GState(bstate'[g])>> \in GTransitions
          /\ (PressCalled(ev', lb, g) /\ GState(bstate[g]) # "Idle")
                => /\ bstate'[g] = bstate[g]
                   /\ timers' = timers
                   /\ CallsOf(calls', g) = <<>>
          /\ (UnpressCalled(ev', lb, g) /\ GState(bstate[g]) = "Idle")
                => /\ bstate'[g] = bstate[g]
                   /\ CallsOf(calls', g) = <<>>]_vars

\* press() was called on a long-active gesture and changed nothing
GestureShapeWitness ==
    /\ lb /\ PadStep(ev, 6, -JOYSTICK_AXIS_MAX)
    /\ GState(bstate["pad_x_left"]) = "LongActive"
    /\ calls = <<>>
    /\ timers = <<>>

TimersOf(ts, g) == Cardinality({i \in 1..Len(ts) : ts[i].kind = "gesture" /\ ts[i].g = g})

\* C17: a gesture has a timer pending only while it is PressPending, never more
\* than one, and a step that invokes its long-press callback finds it
\* PressPending, not Idle.
NoStaleLongPress ==
    [][\A g \in Gestures :
          /\ TimersOf(timers', g) <= 1
          /\ TimersOf(timers', g) = 1 <=> GState(bstate'[g]) = "PressPending"
          /\ (\E i \in 1..Len(calls') : calls'[i] = <<g, "long">>)
                => /\ GState(bstate[g]) = "PressPending"
                   /\ TimersOf(timers, g) = 1
                   /\ TimersOf(timers', g) = 0]_vars

\* a gesture pressed again while the jog of its earlier short press is in
\* flight: one deadline timer, next to the jog's timer
NoStaleWitness ==
    /\ jog_pending
    /\ JogTimerCount(timers) >= 1
    /\ GState(bstate["pad_x_left"]) = "PressPending"
    /\ TimersOf(timers, "pad_x_left") = 1
    /\ GState(bstate["pad_x_right"]) = "Idle"

\* the step's record says the physical control of g went back to rest
ControlReleased(e, g) ==
    \/ ButtonStep(e, 0, 0) /\ g = "a_z_down"
    \/ ButtonStep(e, 4, 0) /\ g = "y_z_up"
    \/ PadStep(e, 6, 0) /\ g \in {"pad_x_left", "pad_x_right"}
    \/ PadStep(e, 7, 0) /\ g \in {"pad_y_up", "pad_y_down"}

LongJogOf(o, g) ==
    \E i \in 1..Len(o) :
        /\ o[i].kind = "jog" /\ o[i].src = "long"
        /\ o[i].mv = << <<GestureAxis[g], GestureDir[g] * LONG_JOG_DISTANCE>> >>

\* C18: when a gesture has emitted a long jog, a jog-cancel is emitted no later
\* than the release of its physical control; in particular, when the step
\* after the long jog is that release, the release emits the jog-cancel.
LongJogCancelled ==
    [][\A g \in Gestures :
          (LongJogOf(out, g) /\ ControlReleased(ev', g))
              => CountOf(out', "cancel") >= 1]_vars

OwnJogTimer(ts) == \E i \in 1..Len(ts) : ts[i].kind = "jog" /\ ts[i].cur

\* C19: while a jog is in flight its own timer is still to fire, and
\* jog_pending always becomes false again, with or without a response; if LB
\* stays held and the stick stays active from some point on, jog commands are
\* sent again and again; a step sends at most one jog command.
InFlightClears ==
    /\ [](jog_pending => OwnJogTimer(timers))
    /\ (jog_pending ~> ~jog_pending)
    /\ (<>[](lb /\ left_x.active) => []<>JogSent(out))
    /\ [][CountOf(out', "jog") <= 1]_vars

\* the last jog's response never came, its timer has fired, and the stick is
\* still held over with LB down
InFlightClearsWitness ==
    /\ ~jog_pending
    /\ ~jogAnswered
    /\ timers = <<>>
    /\ lb /\ left_x.active

\* C20: jog_pending is reset only by a jog timer or by the response that
\* belongs to the jog in flight; a response to anything else leaves it set.
AckAttribution ==
    [][(jog_pending /\ ~jog_pending')
          => \/ JogTimerCount(timers') < JogTimerCount(timers)
             \/ (~jogAnswered /\ jogAnswered')]_vars

\* C21: an axis record read for a control whose slot holds any recorded raw
\* value, less than the sensitivity away from it and not 0, is not forwarded
\* and leaves lastAxisValue and lastAxisEmittedValue of the control as they
\* were; every other axis record sets lastAxisValue to its raw value.
SquelchStep ==
    [][AxisRead(ev')
          => LET n == ev'.number
                 last == lastAxisValue[n]
             IN  IF /\ last # NoValue
                    /\ Abs(ev'.raw - last) < JOYSTICK_SENSITIVITY
                    /\ ev'.raw # 0
                 THEN /\ ~ev'.forwarded
                      /\ lastAxisValue'[n] = last
                      /\ lastAxisEmittedValue'[n] = lastAxisEmittedValue[n]
                 ELSE lastAxisValue'[n] = ev'.raw]_vars

\* the last step was a forwarded, non-init event of a pad axis
PadEvent(e) == AxisRead(e) /\ e.forwarded /\ ~e.init /\ e.number \in {6, 7}

\* C22: a pad event processed with LB held leaves both selectors as they
\* were; processed with LB up it starts no press (gestures, timers and jog
\* state stay as they were, nothing is called or emitted), a PADX event leaves
\* the step feedrate and a PADY event the step distance as it was, and a full
\* deflection moves the axis's own selector by one step or leaves it at its end.
PadGating ==
    [][PadEvent(ev')
          => IF lb
             THEN UNCHANGED <<step_distance_selection, step_feedrate_selection>>
             ELSE /\ UNCHANGED <<bstate, timers, jog_pending, lb, rb>>
                  /\ calls' = <<>> /\ out' = <<>>
                  /\ ev'.number = 6 => UNCHANGED step_feedrate_selection
                  /\ ev'.number = 7 => UNCHANGED step_distance_selection
                  /\ ev'.value = 0
                        => UNCHANGED <<step_distance_selection, step_feedrate_selection>>
                  /\ (ev'.number = 6 /\ ev'.value # 0)
                        => Abs(step_distance_selection' - step_distance_selection) <= 1
                  /\ (ev'.number = 7 /\ ev'.value # 0)
                        => Abs(step_feedrate_selection' - step_feedrate_selection) <= 1]_vars

\* PADY pushed up with LB released changed the feedrate selector while the
\* gesture pressed earlier under LB is still pending
PadGatingWitness ==
    /\ ~lb /\ PadStep(ev, 7, -JOYSTICK_AXIS_MAX)
    /\ step_feedrate_selection = ev.feedrateBefore + 1
    /\ step_distance_selection = ev.distanceBefore
    /\ bstate["pad_y_up"].pending
    /\ calls = <<>>

\* axis letters of the sticks that are active, in the order X, Y, Z
ActiveLetters ==
    (IF left_x.active THEN <<"X">> ELSE <<>>)
    \o (IF left_y.active THEN <<"Y">> ELSE <<>>)
    \o (IF right_y.active THEN <<"Z">> ELSE <<>>)

StickOf(letter) ==
    IF letter = "X" THEN left_x ELSE IF letter = "Y" THEN left_y ELSE right_y

\* C23: a jog sent by the tick is sent with LB held and a stick active; its
\* motion vector names X, Y, Z exactly for the active sticks, once each, and
\* every distance is the jog distance of the command's feedrate, not 0, with
\* the sign of its stick's value.
StickVector ==
    \A i \in 1..Len(out) :
        (out[i].kind = "jog" /\ out[i].src = "stick")
            => /\ lb
               /\ left_x.active \/ left_y.active \/ right_y.active
               /\ [j \in 1..Len(out[i].mv) |-> out[i].mv[j][1]] = ActiveLetters
               /\ \A j \in 1..Len(out[i].mv) :
                     /\ Abs(out[i].mv[j][2]) = jogDistance(out[i].arg)
                     /\ out[i].mv[j][2] # 0
                     /\ Sign(out[i].mv[j][2]) = Sign(StickOf(out[i].mv[j][1]).value)

\* a diagonal jog: left stick pushed left and up, depth stick at rest
StickVectorWitness ==
    /\ Len(out) = 1 /\ out[1].kind = "jog" /\ out[1].src = "stick"
    /\ left_x.value < 0 /\ left_y.value > 0 /\ ~right_y.active
    /\ Len(out[1].mv) = 2

\* ------------------------------------------------------------------------
\* Reconnect poll
\* ------------------------------------------------------------------------
\* an open() is issued / an open completes (without / with error) / a read fails
OpenIssued == opening' > opening
OpenCompleted == opening' < opening
ReadFailed == reading' < reading /\ ~crashed'

\* C24: open() is issued only while the device is marked disconnected; a
\* completed open marks the device connected exactly when it succeeded (a read
\* was started), a failed read marks it disconnected; and whenever the device
\* is marked disconnected, an open() is eventually in progress.
ReconnectPoll ==
    /\ [][/\ OpenIssued => ~controller_connected
          /\ OpenCompleted => (controller_connected' = (reading' > reading))
          /\ ReadFailed => ~controller_connected']_vars
    /\ (~controller_connected ~> (opening > 0))

\* the device was opened, its read failed, and the poll is reopening it
ReconnectWitness ==
    /\ fd /\ reading = 0 /\ ~controller_connected /\ opening > 0

\* ------------------------------------------------------------------------
\* Errors of the command channel
\* ------------------------------------------------------------------------
\* C25: once the command channel has reported an error, no listener, timer
\* or tick ends the process.
ChannelErrorNotFatal == ~socket => ~crashed

\* ------------------------------------------------------------------------
\* The pad back at neutral
\* ------------------------------------------------------------------------
PadGestures(number) ==
    IF number = 6 THEN {"pad_x_left", "pad_x_right"} ELSE {"pad_y_up", "pad_y_down"}

\* C26: after a pad-axis event with a value that is not an extreme has been
\* processed, both gestures of that pad axis are Idle and have no timer
\* pending, whether or not LB is still held.
PadNeutralIdle ==
    (PadEvent(ev) /\ ev.value \notin {-JOYSTICK_AXIS_MAX, JOYSTICK_AXIS_MAX})
        => \A g \in PadGestures(ev.number) :
              /\ GState(bstate[g]) = "Idle"
              /\ TimersOf(timers, g) = 0

\* ------------------------------------------------------------------------
\* The read chain
\* ------------------------------------------------------------------------
\* C27: at any time at most one fs.read is outstanding and at most one
\* fs.open is in progress.
SingleReadChain == opening <= 1 /\ reading <= 1

\* ------------------------------------------------------------------------
\* The spindle flag
\* ------------------------------------------------------------------------
\* C28: spindle_active is true only while LB and RB are both held; it becomes
\* true only in a step that reads no record and emits M3 (the slow tick), and
\* it becomes false exactly in the step that releases LB or RB while it is
\* true, which emits one M5.
SpindleFlag ==
    /\ [](spindle_active => (lb /\ rb))
    /\ [][/\ (~spindle_active /\ spindle_active')
                => (ev'.op = "none" /\ CountOf(out', "M3") = 1)
          /\ (spindle_active /\ ~spindle_active')
                => (((lb /\ ~lb') \/ (rb /\ ~rb')) /\ CountOf(out', "M5") = 1)
          /\ (spindle_active /\ ((lb /\ ~lb') \/ (rb /\ ~rb')))
                => (~spindle_active' /\ CountOf(out', "M5") = 1)]_vars

\* LB was released while the flag was set: jog-cancel, then M5, flag reset
SpindleFlagWitness ==
    /\ out = <<JOG_CANCEL_CMD, Plain("M5")>>
    /\ ~lb /\ rb
    /\ ~spindle_active

====
